---- MODULE Spec2Model ----
(***************************************************************************)
(* Model of the vanity-claim command handler of VIP-Vanity (src/bot.go).   *)
(* Every incoming slash command runs onCommand in its own goroutine; the   *)
(* handler validates the two options, defers the interaction reply, reads  *)
(* the vanity's metadata from the key-value store, and, unless somebody    *)
(* else owns the vanity, PUTs the value and ownership metadata.            *)
(*                                                                         *)
(* Strings are sequences of one-character strings, so that the regular     *)
(* expressions, strings.ToLower and the decimal text of a snowflake id are *)
(* computed character by character.                                        *)
(***************************************************************************)
EXTENDS Naturals, Sequences, FiniteSets, TLC

\* ------------------------------------------------------------------ bounds
\* Number of command interactions the gateway dispatches concurrently.
NumCmds == 2
\* Longest option string enumerated exhaustively in the input specification.
MaxLen == 2

\* ------------------------------------------------------- program constants
\* http.StatusOK, the only status the handler compares against.
StatusOK == 200
\* The length the invalid-vanity message promises ("up to 32 characters").
MaxVanityLen == 32

\* --------------------------------------------------------------- characters
LowerSeq == <<"a","b","c","d","e","f","g","h","i","j","k","l","m",
              "n","o","p","q","r","s","t","u","v","w","x","y","z">>
UpperSeq == <<"A","B","C","D","E","F","G","H","I","J","K","L","M",
              "N","O","P","Q","R","S","T","U","V","W","X","Y","Z">>
DigitSeq == <<"0","1","2","3","4","5","6","7","8","9">>

Range(s) == {s[i] : i \in DOMAIN s}

\* strings.ToLower on one ASCII character.
ToLowerChar(ch) ==
    IF \E i \in DOMAIN UpperSeq : UpperSeq[i] = ch
    THEN LowerSeq[CHOOSE i \in DOMAIN UpperSeq : UpperSeq[i] = ch]
    ELSE ch

\* strings.ToLower.
ToLower(s) == [i \in DOMAIN s |-> ToLowerChar(s[i])]

\* The character class [a-f0-9] of publicIDRegex.
PublicIDClass == {LowerSeq[i] : i \in 1..6} \cup Range(DigitSeq)

\* The character class [a-zA-Z0-9] of vanityRegex.
VanityClass == Range(LowerSeq) \cup Range(UpperSeq) \cup Range(DigitSeq)

\* publicIDRegex.MatchString: ^[a-f0-9]+$
\* (faulty variant: the case-insensitive class)
PublicIDMatchIgnoreCase(s) ==
    Len(s) >= 1 /\ \A i \in DOMAIN s : ToLowerChar(s[i]) \in PublicIDClass
PublicIDMatch(s) == Len(s) >= 1 /\ \A i \in DOMAIN s : s[i] \in PublicIDClass

\* vanityRegex.MatchString: ^[a-zA-Z0-9]+$
VanityMatch(s) == Len(s) >= 1 /\ \A i \in DOMAIN s : s[i] \in VanityClass

\* ------------------------------------------------------------ snowflake ids
RECURSIVE FormatID(_)
\* The decimal text of a snowflake id, as fmt.Sprintf("%s", userID) prints it.
FormatID(n) ==
    IF n < 10 THEN <<DigitSeq[n + 1]>>
    ELSE Append(FormatID(n \div 10), DigitSeq[(n % 10) + 1])

DigitVal(ch) == CHOOSE d \in 0..9 : DigitSeq[d + 1] = ch

RECURSIVE ParseID(_)
\* Decoding of MetadataResponse.Result.ID from its decimal JSON string.
ParseID(s) ==
    IF s = <<>> THEN 0
    ELSE ParseID(SubSeq(s, 1, Len(s) - 1)) * 10 + DigitVal(s[Len(s)])

\* ------------------------------------------------------------------- inputs
Cmd == 1..NumCmds

\* All strings over alphabet A of length at most n.
RECURSIVE StringsUpTo(_, _)
StringsUpTo(A, n) ==
    IF n = 0 THEN {<<>>}
    ELSE LET shorter == StringsUpTo(A, n - 1)
         IN shorter \cup {Append(s, ch) : s \in shorter, ch \in A}

Repeat(ch, n) == [i \in 1..n |-> ch]

\* A lowercase hex letter, a lowercase non-hex letter, an uppercase hex letter, a digit.
IDChars == {"a", "g", "F", "7"}
\* A lowercase letter, an uppercase letter, a digit, a character outside the class.
VanityChars == {"f", "F", "7", "!"}

\* The snowflake ids of the invoking users (one and two decimal digits).
Users == {7, 12}

Request(id, v, u) == [sb_user_id |-> id, vanity |-> v, user |-> u]

\* Every short option pair, plus vanities at and just past the promised length.
AllRequests ==
    {Request(id, v, u) :
        id \in StringsUpTo(IDChars, MaxLen),
        v \in StringsUpTo(VanityChars, MaxLen)
              \cup {Repeat("a", MaxVanityLen), Repeat("a", MaxVanityLen + 1)},
        u \in Users}

\* The requests of the concurrent specification: two users after the same
\* vanity (in different letter case), and one malformed option of each kind.
RaceRequests ==
    { Request(<<"a">>, <<"F">>, 7),
      Request(<<"f">>, <<"f">>, 12),
      Request(<<"g">>, <<"f">>, 7),
      Request(<<"a">>, <<"!">>, 12) }

NoRequest == Request(<<>>, <<>>, 0)

\* ------------------------------------------------------------ store records
Record(k, v, m) == [key |-> k, value |-> v, metadata |-> m]

\* Records present before any command runs: the vanity "f" held by user 12.
InitialRecords == {Record(<<"f">>, <<"b">>, FormatID(12))}

InitialStores == {{}, InitialRecords}

\* ------------------------------------------------------------------- state
VARIABLES
    pending,    \* per command: the interaction's options and invoking user
    pc,         \* per command: position in onCommand
    vanity,     \* per command: the local variable vanity (lowercased option)
    metaRs,     \* per command: the metadata response
    valueRs,    \* per command: the value response
    store,      \* the key-value namespace: a set of records, one per key
    net,        \* per command: the HTTP/REST calls issued, in order
    msgs,       \* per command: the text messages sent to the invoking user
    putOrder    \* the commands whose PUT the store applied, in order

vars == <<pending, pc, vanity, metaRs, valueRs, store, net, msgs, putOrder>>

\* ---------------------------------------------------------------- messages
Msg(k, o, v, id) == [kind |-> k, owner |-> o, vanity |-> v, id |-> id]
InvalidUserIDMsg == Msg("invalidUserID", 0, <<>>, <<>>)
InvalidVanityMsg == Msg("invalidVanity", 0, <<>>, <<>>)
TakenMsg(ownerID) == Msg("taken", ownerID, <<>>, <<>>)
AddedMsg(v, id) == Msg("added", 0, v, id)

\* ------------------------------------------------------------------- calls
Call(op, k, v, m) == [op |-> op, key |-> k, value |-> v, metadata |-> m]
ReplyCall == Call("reply", <<>>, <<>>, <<>>)
DeferCall == Call("defer", <<>>, <<>>, <<>>)
FollowupCall == Call("followup", <<>>, <<>>, <<>>)

\* http.NewRequest(GET, metadataApiURL+vanity).
MetaRequest(c) == Call("get", vanity[c], <<>>, <<>>)

\* w.WriteField("value", pubUserID).
ValueField(c) == pending[c].sb_user_id

\* w.WriteField("metadata", fmt.Sprintf(`{"id":"%s"}`, userID)): the id text.
\* (faulty variant: the decoded owner id instead of the invoking user's)
MetadataFieldFromOwner(c) == FormatID(ParseID(metaRs[c].id))
MetadataField(c) == FormatID(pending[c].user)

\* The multipart form and http.NewRequest(PUT, valuesApiURL+vanity, buf).
\* (faulty variants: the URL built from the option as typed; the vanity
\* written as the value field)
ValueRequestRawVanity(c) ==
    Call("put", pending[c].vanity, ValueField(c), MetadataField(c))
ValueRequestVanityAsValue(c) ==
    Call("put", vanity[c], vanity[c], MetadataField(c))
ValueRequest(c) ==
    Call("put", vanity[c], ValueField(c), MetadataField(c))

\* --------------------------------------------------------------- responses
Response(e, st, dec, id) == [err |-> e, status |-> st, decodable |-> dec, id |-> id]
NoResponse == Response(FALSE, 0, FALSE, <<>>)

\* What client.Do can return for the metadata request: a transport error, the
\* store's answer for the key (200 with the metadata, or 404), a server
\* error, or a 200 whose body does not decode.
MetaResponses(s, k) ==
    { Response(TRUE, 0, FALSE, <<>>),
      Response(FALSE, 500, FALSE, <<>>),
      Response(FALSE, StatusOK, FALSE, <<>>) }
    \cup (IF \E r \in s : r.key = k
          THEN {Response(FALSE, StatusOK, TRUE, r.metadata) : r \in {x \in s : x.key = k}}
          ELSE {Response(FALSE, 404, FALSE, <<>>)})

\* What client.Do can return for the value request, and whether the store
\* applied the write: 200 after applying it, a server error without applying
\* it, or a transport error before or after the store applied it.
PutOutcomes ==
    { [rs |-> Response(FALSE, StatusOK, FALSE, <<>>), applied |-> TRUE],
      [rs |-> Response(FALSE, 500, FALSE, <<>>), applied |-> FALSE],
      [rs |-> Response(TRUE, 0, FALSE, <<>>), applied |-> FALSE],
      [rs |-> Response(TRUE, 0, FALSE, <<>>), applied |-> TRUE] }

\* The store's PUT values/<key>: value and metadata replace the key's record.
StorePut(s, req) ==
    {r \in s : r.key # req.key} \cup {Record(req.key, req.value, req.metadata)}

\* ownerID != userID.
\* (faulty variant: the comparison inverted)
OwnedByOtherInverted(ownerID, userID) == ownerID = userID
OwnedByOther(ownerID, userID) == ownerID # userID

\* code == http.StatusOK.
\* (faulty variant: any code from 200 up)
CodeOKOrAbove(code) == code >= StatusOK
CodeOK(code) == code = StatusOK

\* ------------------------------------------------------------------ actions
Send(c, call, m) ==
    /\ net' = [net EXCEPT ![c] = Append(@, call)]
    /\ msgs' = [msgs EXCEPT ![c] = Append(@, m)]

\* createFollowup.
createFollowup(c, m) == Send(c, FollowupCall, m)

\* onCommand up to the vanity check: read both options, match the public user
\* id, lowercase and match the vanity, reply with the error message on a mismatch.
Validate(c) ==
    /\ pc[c] = "received"
    /\ LET pubUserID == pending[c].sb_user_id
           v == ToLower(pending[c].vanity)
       IN IF ~PublicIDMatch(pubUserID)
          THEN /\ Send(c, ReplyCall, InvalidUserIDMsg)
               /\ pc' = [pc EXCEPT ![c] = "rejected"]
               /\ UNCHANGED vanity
          ELSE IF ~VanityMatch(v)
          THEN /\ Send(c, ReplyCall, InvalidVanityMsg)
               /\ pc' = [pc EXCEPT ![c] = "rejected"]
               /\ vanity' = [vanity EXCEPT ![c] = v]
          ELSE /\ pc' = [pc EXCEPT ![c] = "defer"]
               /\ vanity' = [vanity EXCEPT ![c] = v]
               /\ UNCHANGED <<net, msgs>>
    /\ UNCHANGED <<pending, metaRs, valueRs, store, putOrder>>

\* event.DeferCreateMessage(true).
Defer(c) ==
    /\ pc[c] = "defer"
    /\ net' = [net EXCEPT ![c] = Append(@, DeferCall)]
    /\ pc' = [pc EXCEPT ![c] = "metaGet"]
    /\ UNCHANGED <<pending, vanity, metaRs, valueRs, store, msgs, putOrder>>

\* The metadata request and client.Do(metaRequest); a transport error ends the command.
\* (http.NewRequest cannot fail here: the method is valid and the validated
\* vanity adds only [a-z0-9] to a well-formed URL.)
MetaGet(c) ==
    /\ pc[c] = "metaGet"
    /\ net' = [net EXCEPT ![c] = Append(@, MetaRequest(c))]
    /\ \E rs \in MetaResponses(store, vanity[c]) :
        /\ metaRs' = [metaRs EXCEPT ![c] = rs]
        /\ pc' = [pc EXCEPT ![c] = IF rs.err THEN "failed" ELSE "metaExamine"]
    /\ UNCHANGED <<pending, vanity, valueRs, store, msgs, putOrder>>

\* (faulty variant: no return after the "already taken" follow-up)
MetaExamineFallsThrough(c) ==
    /\ pc[c] = "metaExamine"
    /\ LET userID == pending[c].user
           ownerID == ParseID(metaRs[c].id)
       IN IF metaRs[c].status = StatusOK /\ ~metaRs[c].decodable
          THEN /\ pc' = [pc EXCEPT ![c] = "failed"]
               /\ UNCHANGED <<net, msgs>>
          ELSE IF metaRs[c].status = StatusOK /\ OwnedByOther(ownerID, userID)
          THEN /\ createFollowup(c, TakenMsg(ownerID))
               /\ pc' = [pc EXCEPT ![c] = "valuePut"]
          ELSE /\ pc' = [pc EXCEPT ![c] = "valuePut"]
               /\ UNCHANGED <<net, msgs>>
    /\ UNCHANGED <<pending, vanity, metaRs, valueRs, store, putOrder>>

\* The examination of the metadata response: only a 200 is decoded; a decode
\* error ends the command, another owner gets the follow-up and ends it.
MetaExamine(c) ==
    /\ pc[c] = "metaExamine"
    /\ LET userID == pending[c].user
           ownerID == ParseID(metaRs[c].id)
       IN IF metaRs[c].status = StatusOK /\ ~metaRs[c].decodable
          THEN /\ pc' = [pc EXCEPT ![c] = "failed"]
               /\ UNCHANGED <<net, msgs>>
          ELSE IF metaRs[c].status = StatusOK /\ OwnedByOther(ownerID, userID)
          THEN /\ createFollowup(c, TakenMsg(ownerID))
               /\ pc' = [pc EXCEPT ![c] = "conflict"]
          ELSE /\ pc' = [pc EXCEPT ![c] = "valuePut"]
               /\ UNCHANGED <<net, msgs>>
    /\ UNCHANGED <<pending, vanity, metaRs, valueRs, store, putOrder>>

\* The value request and client.Do(valueRequest); a transport error ends the command.
\* (As for the metadata request, http.NewRequest cannot fail here.)
ValuePut(c) ==
    /\ pc[c] = "valuePut"
    /\ net' = [net EXCEPT ![c] = Append(@, ValueRequest(c))]
    /\ \E out \in PutOutcomes :
        /\ valueRs' = [valueRs EXCEPT ![c] = out.rs]
        /\ store' = IF out.applied THEN StorePut(store, ValueRequest(c)) ELSE store
        /\ putOrder' = IF out.applied THEN Append(putOrder, c) ELSE putOrder
        /\ pc' = [pc EXCEPT ![c] = IF out.rs.err THEN "failed" ELSE "valueExamine"]
    /\ UNCHANGED <<pending, vanity, metaRs, msgs>>

\* (faulty variant: the value request is issued again after a non-200 code)
ValueExamineRetry(c) ==
    /\ pc[c] = "valueExamine"
    /\ LET code == valueRs[c].status
       IN IF CodeOK(code)
          THEN /\ createFollowup(c, AddedMsg(vanity[c], pending[c].sb_user_id))
               /\ pc' = [pc EXCEPT ![c] = "claimed"]
          ELSE /\ pc' = [pc EXCEPT ![c] = "valuePut"]
               /\ UNCHANGED <<net, msgs>>
    /\ UNCHANGED <<pending, vanity, metaRs, valueRs, store, putOrder>>

\* The examination of the value response: a 200 gets the success follow-up,
\* any other code is logged.
ValueExamine(c) ==
    /\ pc[c] = "valueExamine"
    /\ LET code == valueRs[c].status
       IN IF CodeOK(code)
          THEN /\ createFollowup(c, AddedMsg(vanity[c], pending[c].sb_user_id))
               /\ pc' = [pc EXCEPT ![c] = "claimed"]
          ELSE /\ pc' = [pc EXCEPT ![c] = "failed"]
               /\ UNCHANGED <<net, msgs>>
    /\ UNCHANGED <<pending, vanity, metaRs, valueRs, store, putOrder>>

Next ==
    \E c \in Cmd :
        \/ Validate(c)
        \/ Defer(c)
        \/ MetaGet(c)
        \/ MetaExamine(c)
        \/ ValuePut(c)
        \/ ValueExamine(c)

\* ----------------------------------------------------------- specifications
InitLocals ==
    /\ vanity = [c \in Cmd |-> <<>>]
    /\ metaRs = [c \in Cmd |-> NoResponse]
    /\ valueRs = [c \in Cmd |-> NoResponse]
    /\ net = [c \in Cmd |-> <<>>]
    /\ msgs = [c \in Cmd |-> <<>>]
    /\ putOrder = <<>>

\* Every command has been dispatched, concurrently, with a request of RaceRequests.
Init ==
    /\ pending \in [Cmd -> RaceRequests]
    /\ pc = [c \in Cmd |-> "received"]
    /\ store \in InitialStores
    /\ InitLocals

Spec == Init /\ [][Next]_vars

\* One command has been dispatched, with any request of AllRequests.
InitInput ==
    /\ pending \in {[c \in Cmd |-> IF c = 1 THEN r ELSE NoRequest] : r \in AllRequests}
    /\ pc = [c \in Cmd |-> IF c = 1 THEN "received" ELSE "idle"]
    /\ store \in InitialStores
    /\ InitLocals

SpecInput == InitInput /\ [][Next]_vars

\* ------------------------------------------------------------- observations
\* The operations of the calls command c has issued, in order.
Ops(c) == [i \in DOMAIN net[c] |-> net[c][i].op]

\* The calls of one operation command c has issued.
CallsOf(c, op) == {i \in DOMAIN net[c] : net[c][i].op = op}

\* The store requests (GET, PUT) command c has issued, in order.
StoreOps(c) == SelectSeq(Ops(c), LAMBDA o : o \in {"get", "put"})

\* Command c has received a response to its metadata request.
GotMeta(c) == CallsOf(c, "get") # {} /\ ~metaRs[c].err

\* Command c has examined that response.
ExaminedMeta(c) == GotMeta(c) /\ pc[c] # "metaExamine"

\* Command c has received a response, or a transport error, for its value request.
PutReturned(c) == CallsOf(c, "put") # {}

Prefix(s, t) == Len(s) <= Len(t) /\ \A i \in DOMAIN s : s[i] = t[i]

\* The two patterns of the specification, written out character by character.
SpecHex == {"0","1","2","3","4","5","6","7","8","9","a","b","c","d","e","f"}
SpecAlnum ==
    {"0","1","2","3","4","5","6","7","8","9",
     "a","b","c","d","e","f","g","h","i","j","k","l","m",
     "n","o","p","q","r","s","t","u","v","w","x","y","z",
     "A","B","C","D","E","F","G","H","I","J","K","L","M",
     "N","O","P","Q","R","S","T","U","V","W","X","Y","Z"}
SpecPublicID(s) == s # <<>> /\ \A i \in DOMAIN s : s[i] \in SpecHex
SpecVanity(s) ==
    /\ Len(s) >= 1
    /\ Len(s) <= MaxVanityLen
    /\ \A i \in DOMAIN s : s[i] \in SpecAlnum

\* The metadata response of c is a decodable 200 naming an owner other than
\* the invoking user.
OtherOwner(c) ==
    /\ GotMeta(c)
    /\ metaRs[c].status = 200
    /\ metaRs[c].decodable
    /\ metaRs[c].id # FormatID(pending[c].user)

\* The metadata response of c reports the vanity unclaimed (404), or a
\* decodable 200 naming the invoking user.
FreeOrOwn(c) ==
    /\ GotMeta(c)
    /\ \/ metaRs[c].status = 404
       \/ /\ metaRs[c].status = 200
          /\ metaRs[c].decodable
          /\ metaRs[c].id = FormatID(pending[c].user)

\* ------------------------------------------------------------------- claims

\* C1: a command whose metadata read returned 200 with an owner other than
\* the requester never issues the value PUT, never has a write applied to the
\* store, and once the response is examined has sent exactly one follow-up,
\* the "already taken" message naming the owner the store returned.
C1_ConflictSkipsWrite ==
    \A c \in Cmd : OtherOwner(c) =>
        /\ CallsOf(c, "put") = {}
        /\ \A i \in DOMAIN putOrder : putOrder[i] # c
        /\ IF pc[c] = "metaExamine"
           THEN msgs[c] = <<>>
           ELSE /\ pc[c] = "conflict"
                /\ Len(msgs[c]) = 1
                /\ msgs[c][1].kind = "taken"
                /\ FormatID(msgs[c][1].owner) = metaRs[c].id
                /\ Cardinality(CallsOf(c, "followup")) = 1

C1_Witness ==
    \E c \in Cmd : OtherOwner(c) /\ pc[c] = "conflict" /\ store # {}

\* C2: a command whose vanity, lowercased, does not match
\* ^[0-9a-zA-Z]{1,32}$ (its public id being well-formed) is rejected with the
\* invalid-vanity message and issues no acknowledgment, GET or PUT.
C2_BadVanityRejected ==
    \A c \in Cmd :
        ( /\ pc[c] \notin {"idle", "received"}
          /\ SpecPublicID(pending[c].sb_user_id)
          /\ ~SpecVanity(ToLower(pending[c].vanity)) ) =>
        /\ pc[c] = "rejected"
        /\ msgs[c] = <<InvalidVanityMsg>>
        /\ Ops(c) = <<"reply">>

\* C3: a metadata response whose status is neither 200 nor 404, or a 200
\* whose body does not decode, ends the command in Failed once examined, with
\* no value PUT and no follow-up message.
C3_BadMetaStatusFails ==
    \A c \in Cmd :
        ( /\ ExaminedMeta(c)
          /\ \/ metaRs[c].status \notin {200, 404}
             \/ metaRs[c].status = 200 /\ ~metaRs[c].decodable ) =>
        /\ pc[c] = "failed"
        /\ CallsOf(c, "put") = {}
        /\ msgs[c] = <<>>

\* C4: a validated command whose metadata read reported the vanity unclaimed
\* or owned by the requester issues, once the response is examined and the
\* write step taken, exactly one value PUT, for the lowercased vanity, with
\* value the public id and metadata id the requester's numeric id; no command
\* ever issues more than one PUT.
C4_FreeOrOwnWrites ==
    \A c \in Cmd :
        /\ Cardinality(CallsOf(c, "put")) <= 1
        /\ (FreeOrOwn(c) /\ pc[c] \notin {"metaExamine", "valuePut"}) =>
            /\ Cardinality(CallsOf(c, "put")) = 1
            /\ \A i \in CallsOf(c, "put") :
                /\ net[c][i].key = ToLower(pending[c].vanity)
                /\ net[c][i].value = pending[c].sb_user_id
                /\ ParseID(net[c][i].metadata) = pending[c].user

C4_Witness ==
    \E c, d \in Cmd :
        /\ FreeOrOwn(c) /\ metaRs[c].status = 404 /\ pc[c] = "claimed"
        /\ FreeOrOwn(d) /\ metaRs[d].status = 200 /\ pc[d] = "claimed"
        /\ pending[d].vanity # ToLower(pending[d].vanity)

\* C5: every record of the store that was not there initially has a value and
\* an owner id that come from one and the same command's request (and sits
\* under that command's lowercased vanity).
C5_RecordFromOneRequest ==
    \A r \in store :
        \/ r \in InitialRecords
        \/ \E c \in Cmd :
            /\ r.key = ToLower(pending[c].vanity)
            /\ r.value = pending[c].sb_user_id
            /\ ParseID(r.metadata) = pending[c].user

C5_Witness ==
    /\ Len(putOrder) >= 2
    /\ pending[putOrder[1]].user # pending[putOrder[2]].user
    /\ pending[putOrder[1]].sb_user_id # pending[putOrder[2]].sb_user_id
    /\ store # {}
    /\ store \cap InitialRecords = {}

\* C6: the success message is sent only by a command whose value PUT returned
\* 200; a command whose PUT returned another status, or a transport error,
\* ends in Failed once the response is examined, with no message and with
\* that single PUT.
C6_SuccessOnlyOn200 ==
    \A c \in Cmd :
        /\ (\E i \in DOMAIN msgs[c] : msgs[c][i].kind = "added") =>
            (PutReturned(c) /\ ~valueRs[c].err /\ valueRs[c].status = 200)
        /\ ( /\ PutReturned(c)
             /\ valueRs[c].err \/ valueRs[c].status # 200
             /\ pc[c] # "valueExamine" ) =>
            /\ pc[c] = "failed"
            /\ msgs[c] = <<>>
            /\ Cardinality(CallsOf(c, "put")) = 1

C6_Witness ==
    \E c, d \in Cmd :
        /\ pc[c] = "failed" /\ PutReturned(c) /\ valueRs[c].status = 500
        /\ pc[d] = "claimed" /\ valueRs[d].status = 200

\* C7: a command whose public id does not match ^[0-9a-f]+$ is rejected with
\* the invalid-user-id message, whatever its vanity, and issues no
\* acknowledgment, GET or PUT.
C7_BadUserIDRejected ==
    \A c \in Cmd :
        ( /\ pc[c] \notin {"idle", "received"}
          /\ ~SpecPublicID(pending[c].sb_user_id) ) =>
        /\ pc[c] = "rejected"
        /\ msgs[c] = <<InvalidUserIDMsg>>
        /\ Ops(c) = <<"reply">>

C7_Witness ==
    \E c \in Cmd :
        /\ pc[c] = "rejected"
        /\ \E i \in DOMAIN pending[c].sb_user_id : pending[c].sb_user_id[i] = "F"
        /\ SpecVanity(ToLower(pending[c].vanity))

\* C8: every command sends at most one text message; a finished command is in
\* exactly one of these shapes: rejected (the rejection reply alone, no
\* acknowledgment), conflict or claimed (acknowledgment, then exactly one
\* follow-up of that kind), failed (acknowledgment and no message, after a
\* failed metadata read or value write); and a finished command does nothing more.
C8_Terminal(c) == pc[c] \in {"rejected", "conflict", "claimed", "failed"}

C8_Shape ==
    \A c \in Cmd :
        /\ Len(msgs[c]) <= 1
        /\ ~C8_Terminal(c) => msgs[c] = <<>>
        /\ pc[c] = "rejected" =>
            /\ Ops(c) = <<"reply">>
            /\ Len(msgs[c]) = 1
            /\ msgs[c][1].kind \in {"invalidUserID", "invalidVanity"}
        /\ pc[c] = "conflict" =>
            /\ Ops(c) = <<"defer", "get", "followup">>
            /\ Len(msgs[c]) = 1
            /\ msgs[c][1].kind = "taken"
        /\ pc[c] = "claimed" =>
            /\ Ops(c) = <<"defer", "get", "put", "followup">>
            /\ Len(msgs[c]) = 1
            /\ msgs[c][1].kind = "added"
        /\ pc[c] = "failed" =>
            /\ Ops(c) \in {<<"defer", "get">>, <<"defer", "get", "put">>}
            /\ msgs[c] = <<>>

C9_WritersOf(k) == {i \in DOMAIN putOrder : ToLower(pending[putOrder[i]].vanity) = k}

C9_LastWriterWins ==
    \A c \in Cmd :
        LET k == ToLower(pending[c].vanity)
            w == C9_WritersOf(k)
        IN w # {} =>
            LET last == putOrder[CHOOSE i \in w : \A j \in w : j <= i]
            IN {r \in store : r.key = k} =
                {Record(k, pending[last].sb_user_id, FormatID(pending[last].user))}

\* Both commands saw the vanity unclaimed, both wrote, both were told they
\* succeeded, and the record is the second writer's.
C9_Witness ==
    \E c, d \in Cmd :
        /\ pending[c].user # pending[d].user
        /\ vanity[c] = vanity[d]
        /\ metaRs[c].status = 404 /\ metaRs[d].status = 404
        /\ pc[c] = "claimed" /\ pc[d] = "claimed"
        /\ putOrder = <<c, d>>
        /\ \A r \in store : r.key = vanity[c] => ParseID(r.metadata) = pending[d].user

\* C10: the store-facing steps of a command are, in this order and each at
\* most once, acknowledge, metadata GET, value PUT; the PUT is issued only
\* after the GET's response was examined and let the command through; and a
\* failed command issues nothing more.
C10_Order ==
    \A c \in Cmd :
        /\ Prefix(SelectSeq(Ops(c), LAMBDA o : o \in {"defer", "get", "put"}),
                  <<"defer", "get", "put">>)
        /\ CallsOf(c, "put") # {} =>
            /\ ExaminedMeta(c)
            /\ ~(metaRs[c].status = 200 /\ ~metaRs[c].decodable)
            /\ ~OtherOwner(c)
        /\ (pc[c] = "failed" /\ CallsOf(c, "get") # {} /\ metaRs[c].err) =>
            StoreOps(c) = <<"get">>

====
